---- MODULE Spec2Model ----
(***************************************************************************)
(* Model of ogsl.py: the asl sign-list parser parse_asl (a generator), its *)
(* helpers rest_of and ucode_to_char, and the consumer loop of __main__.   *)
(*                                                                         *)
(* A Python str is a sequence of code points (naturals), so startswith,    *)
(* strip, split and the regular expression of ucode_to_char are computed.  *)
(* OgslSign objects live in `heap`; a reference is an index into it and 0  *)
(* is None, so that aliasing between the parser's current record and the   *)
(* records already handed to the consumer is visible.                      *)
(***************************************************************************)
EXTENDS Integers, Sequences, FiniteSets, TLC

VARIABLES input, cursor, examined, sign, heap, emitted, log, pc, exc, printed

vars == <<input, cursor, examined, sign, heap, emitted, log, pc, exc, printed>>

(***************************************************************************)
(* Bounds of the model.                                                    *)
(***************************************************************************)
MaxLines == 4

\* The most dot-separated tokens of a generated @ucode line.
MaxTokens == 2

(***************************************************************************)
(* Characters.  Ord gives the code point of a printable ASCII character.   *)
(***************************************************************************)
Digits == << "0", "1", "2", "3", "4", "5", "6", "7", "8", "9" >>

Upper ==
  << "A", "B", "C", "D", "E", "F", "G", "H", "I", "J", "K", "L", "M",
     "N", "O", "P", "Q", "R", "S", "T", "U", "V", "W", "X", "Y", "Z" >>

Lower ==
  << "a", "b", "c", "d", "e", "f", "g", "h", "i", "j", "k", "l", "m",
     "n", "o", "p", "q", "r", "s", "t", "u", "v", "w", "x", "y", "z" >>

IndexIn(seq, c) == CHOOSE i \in 1..Len(seq) : seq[i] = c

Ord(c) ==
  CASE c = " " -> 32
    [] c = "-" -> 45
    [] c = "." -> 46
    [] c = "@" -> 64
    [] c \in {Digits[i] : i \in 1..10} -> 47 + IndexIn(Digits, c)
    [] c \in {Upper[i] : i \in 1..26} -> 64 + IndexIn(Upper, c)
    [] c \in {Lower[i] : i \in 1..26} -> 96 + IndexIn(Lower, c)

\* A str literal, written as a tuple of one-character strings.
Str(cs) == [i \in 1..Len(cs) |-> Ord(cs[i])]

\* str.isspace() on the ASCII range: \t \n \v \f \r, FS GS RS US, space.
IsSpace(ch) == ch \in ((9..13) \cup (28..32))

(***************************************************************************)
(* Python str methods used by the parser.                                  *)
(***************************************************************************)
\* s.startswith(p)
StartsWith(s, p) == Len(s) >= Len(p) /\ SubSeq(s, 1, Len(p)) = p

RECURSIVE LStrip(_)
LStrip(s) == IF s # <<>> /\ IsSpace(Head(s)) THEN LStrip(Tail(s)) ELSE s

RECURSIVE RStrip(_)
RStrip(s) ==
  IF s # <<>> /\ IsSpace(s[Len(s)]) THEN RStrip(SubSeq(s, 1, Len(s) - 1)) ELSE s

\* s.strip()
Strip(s) == RStrip(LStrip(s))

\* Length of the leading run of non-whitespace characters of s.
RECURSIVE WordLen(_)
WordLen(s) == IF s = <<>> \/ IsSpace(Head(s)) THEN 0 ELSE 1 + WordLen(Tail(s))

\* s.split(maxsplit=n): whitespace-separated words; after n splits the rest
\* of the string (leading whitespace removed, trailing kept) is the last item,
\* and an empty rest adds no item.
RECURSIVE Split(_, _)
Split(s, n) ==
  LET t == LStrip(s) IN
    IF t = <<>> THEN <<>>
    ELSE IF n = 0 THEN <<t>>
    ELSE LET w == WordLen(t) IN
           <<SubSeq(t, 1, w)>> \o Split(SubSeq(t, w + 1, Len(t)), n - 1)

\* Length of the leading run of characters of s that are not sep.
RECURSIVE FieldLen(_, _)
FieldLen(s, sep) ==
  IF s = <<>> \/ Head(s) = sep THEN 0 ELSE 1 + FieldLen(Tail(s), sep)

\* s.split(sep) for a one-character separator: empty fields are kept.
RECURSIVE SplitOn(_, _)
SplitOn(s, sep) ==
  LET w == FieldLen(s, sep) IN
    IF w = Len(s) THEN <<s>>
    ELSE <<SubSeq(s, 1, w)>> \o SplitOn(SubSeq(s, w + 2, Len(s)), sep)

\* The join of parts with the empty separator.
RECURSIVE Join(_)
Join(parts) == IF parts = <<>> THEN <<>> ELSE Head(parts) \o Join(Tail(parts))

(***************************************************************************)
(* class OgslSign and the helpers rest_of and ucode_to_char.               *)
(* A call that can raise returns [ok, val]; ok = FALSE is the exception.   *)
(***************************************************************************)
\* OgslSign.__init__(name)
OgslSign(name) ==
  [name |-> name, lists |-> <<>>, sign |-> <<>>, values |-> <<>>, fake |-> FALSE]

\* rest_of(line): `_, rest = line.split(maxsplit=1)` raises ValueError unless
\* the split has exactly two items.
rest_of(line) ==
  LET parts == Split(line, 1) IN
    IF Len(parts) = 2 THEN [ok |-> TRUE, val |-> parts[2]]
    ELSE [ok |-> FALSE, val |-> <<>>]

\* The character class [0-9a-fA-F].
IsHexDigit(ch) == ch \in ((48..57) \cup (65..70) \cup (97..102))

HexDigitValue(ch) ==
  IF ch \in 48..57 THEN ch - 48
  ELSE IF ch \in 65..70 THEN ch - 55
  ELSE ch - 87

\* Length of the leading run of hexadecimal digits of s: what [0-9a-fA-F]+
\* consumes, being greedy.
RECURSIVE HexRunLen(_)
HexRunLen(s) ==
  IF s = <<>> \/ ~IsHexDigit(Head(s)) THEN 0 ELSE 1 + HexRunLen(Tail(s))

\* int(digits, 16)
RECURSIVE HexToInt(_)
HexToInt(digits) ==
  IF digits = <<>> THEN 0
  ELSE 16 * HexToInt(SubSeq(digits, 1, Len(digits) - 1))
         + HexDigitValue(digits[Len(digits)])

\* re.match(ucode_pattern, code): the pattern x?([0-9a-fA-F]+) is anchored at
\* the start of code only.  The result is group 1, or <<>> for no match
\* (group 1 of a match is never empty).
UcodeMatch(code) ==
  LET body == IF code # <<>> /\ Head(code) = Ord("x") /\ HexRunLen(Tail(code)) > 0
              THEN Tail(code) ELSE code
  IN SubSeq(body, 1, HexRunLen(body))

\* chr(n) raises ValueError outside range(0x110000).
chr(n) ==
  IF n <= 1114111 THEN [ok |-> TRUE, val |-> <<n>>] ELSE [ok |-> FALSE, val |-> <<>>]

\* ucode_to_char(code)
ucode_to_char(code) ==
  LET match == UcodeMatch(code) IN
    IF match # <<>> THEN chr(HexToInt(match))
    ELSE [ok |-> TRUE, val |-> code]

(***************************************************************************)
(* The tags parse_asl tests with startswith, in the order it tests them.   *)
(***************************************************************************)
TagSign == Str(<<"@", "s", "i", "g", "n">>)
TagEndSign == Str(<<"@", "e", "n", "d", " ", "s", "i", "g", "n">>)
TagEnd == Str(<<"@", "e", "n", "d">>)
TagUcode == Str(<<"@", "u", "c", "o", "d", "e">>)
TagV == Str(<<"@", "v">>)
TagList == Str(<<"@", "l", "i", "s", "t">>)
TagFake == Str(<<"@", "f", "a", "k", "e">>)
TagUname == Str(<<"@", "u", "n", "a", "m", "e">>)
TagUphase == Str(<<"@", "u", "p", "h", "a", "s", "e">>)
TagNote == Str(<<"@", "n", "o", "t", "e">>)
TagInote == Str(<<"@", "i", "n", "o", "t", "e">>)
TagForm == Str(<<"@", "f", "o", "r", "m">>)
TagLit == Str(<<"@", "l", "i", "t">>)
TagPname == Str(<<"@", "p", "n", "a", "m", "e">>)

(***************************************************************************)
(* One iteration of the loop of parse_asl on a stripped, non-blank line.   *)
(* s is the local `sign` (0 is None), h the heap of OgslSign objects, lg   *)
(* what the logging calls have reported so far.  The outcome says how the  *)
(* iteration ends: "next" (the loop goes on), "yield" (the generator       *)
(* suspends, handing out s) or "raise" (an exception leaves the generator).*)
(***************************************************************************)
Outcome(kind, s, h, lg, e) == [kind |-> kind, sign |-> s, heap |-> h, log |-> lg, exc |-> e]

Continue(s, h, lg) == Outcome("next", s, h, lg, "none")

Raise(e, s, h, lg) == Outcome("raise", s, h, lg, e)

\* error(...) and warning(...) of the logging module.
Report(lg, level, line) == Append(lg, [level |-> level, line |-> line])

\* A mutant of SignBranch: the name is the first word after the tag only.
SignBranch_FirstWord(line, s, h, lg) ==
  LET items == Split(line, 2) IN
    IF Len(items) < 2 THEN Raise("ValueError", s, h, lg)
    ELSE Continue(Len(h) + 1, Append(h, OgslSign(items[2])), lg)

\* A mutant of SignBranch: a record already current is renamed and reused
\* instead of a new one being allocated.
SignBranch_Reuse(line, s, h, lg) ==
  LET name == rest_of(line) IN
    IF ~name.ok THEN Raise("ValueError", s, h, lg)
    ELSE IF s = 0 THEN Continue(Len(h) + 1, Append(h, OgslSign(name.val)), lg)
    ELSE Continue(s, [h EXCEPT ![s].name = name.val], lg)

\* line 60-62: name = rest_of(line); sign = OgslSign(name)
SignBranch(line, s, h, lg) ==
  LET name == rest_of(line) IN
    IF ~name.ok THEN Raise("ValueError", s, h, lg)
    ELSE Continue(Len(h) + 1, Append(h, OgslSign(name.val)), lg)

\* A mutant of EndSignBranch: the record end does not suspend the generator.
EndSignBranch_NoYield(line, s, h, lg) == Continue(s, h, lg)

\* line 63-64: yield sign
EndSignBranch(line, s, h, lg) == Outcome("yield", s, h, lg, "none")

\* line 65-66: error(f'unrecognized @end: {line}')
EndBranch(line, s, h, lg) == Continue(s, h, Report(lg, "ERROR", line))

\* map(ucode_to_char, codes)
MapUcode(codes) == [i \in 1..Len(codes) |-> ucode_to_char(codes[i])]

\* A mutant of UcodeBranch: the remainder is decoded as one token, without
\* being split on the dots.
UcodeBranch_NoSplit(line, s, h, lg) ==
  LET rest == rest_of(line) IN
    IF ~rest.ok THEN Raise("ValueError", s, h, lg)
    ELSE LET char == ucode_to_char(rest.val) IN
      IF ~char.ok THEN Raise("ValueError", s, h, lg)
      ELSE IF s = 0 THEN Raise("AttributeError", s, h, lg)
      ELSE Continue(s, [h EXCEPT ![s].sign = char.val], lg)

\* line 67-69.  The right-hand side is evaluated before the attribute of
\* sign is set, so its ValueError comes before the AttributeError of None.
UcodeBranch(line, s, h, lg) ==
  LET rest == rest_of(line) IN
    IF ~rest.ok THEN Raise("ValueError", s, h, lg)
    ELSE LET chars == MapUcode(SplitOn(rest.val, Ord("."))) IN
      IF \E i \in 1..Len(chars) : ~chars[i].ok THEN Raise("ValueError", s, h, lg)
      ELSE IF s = 0 THEN Raise("AttributeError", s, h, lg)
      ELSE Continue(s,
             [h EXCEPT ![s].sign = Join([i \in 1..Len(chars) |-> chars[i].val])], lg)

\* A mutant of VBranch: the value is inserted at the front.
VBranch_Prepend(line, s, h, lg) ==
  LET items == Split(line, 2) IN
    IF s = 0 THEN Raise("AttributeError", s, h, lg)
    ELSE IF Len(items) < 2 THEN Raise("IndexError", s, h, lg)
    ELSE Continue(s, [h EXCEPT ![s].values = <<items[2]>> \o @], lg)

\* line 70-72.  sign.values.append is looked up before items[1] is evaluated.
VBranch(line, s, h, lg) ==
  LET items == Split(line, 2) IN
    IF s = 0 THEN Raise("AttributeError", s, h, lg)
    ELSE IF Len(items) < 2 THEN Raise("IndexError", s, h, lg)
    ELSE Continue(s, [h EXCEPT ![s].values = Append(@, items[2])], lg)

\* line 73-75
ListBranch(line, s, h, lg) ==
  LET citation == rest_of(line) IN
    IF ~citation.ok THEN Raise("ValueError", s, h, lg)
    ELSE IF s = 0 THEN Raise("AttributeError", s, h, lg)
    ELSE Continue(s, [h EXCEPT ![s].lists = Append(@, Strip(citation.val))], lg)

\* A mutant of FakeBranch: the flag is parsed, `0` and `false` meaning false.
FakeBranch_ParsesFlag(line, s, h, lg) ==
  LET rest == rest_of(line) IN
    IF ~rest.ok THEN Raise("ValueError", s, h, lg)
    ELSE IF s = 0 THEN Raise("AttributeError", s, h, lg)
    ELSE Continue(s,
           [h EXCEPT ![s].fake =
              rest.val \notin {Str(<<"0">>), Str(<<"f", "a", "l", "s", "e">>)}], lg)

\* line 76-77: bool(str) is true exactly for a non-empty str.
FakeBranch(line, s, h, lg) ==
  LET rest == rest_of(line) IN
    IF ~rest.ok THEN Raise("ValueError", s, h, lg)
    ELSE IF s = 0 THEN Raise("AttributeError", s, h, lg)
    ELSE Continue(s, [h EXCEPT ![s].fake = (rest.val # <<>>)], lg)

\* A mutant of IgnoredBranch: an ignored tag is reported like an unknown line.
IgnoredBranch_Warns(line, s, h, lg) == Continue(s, h, Report(lg, "WARNING", line))

\* line 78-91: continue
IgnoredBranch(line, s, h, lg) == Continue(s, h, lg)

\* line 92-93: warning(f'unrecognized line: {line}')
ElseBranch(line, s, h, lg) == Continue(s, h, Report(lg, "WARNING", line))

\* A mutant of Dispatch: the generic @end test comes before the record-end test.
Dispatch_EndFirst(line, s, h, lg) ==
  IF StartsWith(line, TagSign) THEN SignBranch(line, s, h, lg)
  ELSE IF StartsWith(line, TagEnd) THEN EndBranch(line, s, h, lg)
  ELSE IF StartsWith(line, TagEndSign) THEN EndSignBranch(line, s, h, lg)
  ELSE IF StartsWith(line, TagUcode) THEN UcodeBranch(line, s, h, lg)
  ELSE IF StartsWith(line, TagV) THEN VBranch(line, s, h, lg)
  ELSE IF StartsWith(line, TagList) THEN ListBranch(line, s, h, lg)
  ELSE IF StartsWith(line, TagFake) THEN FakeBranch(line, s, h, lg)
  ELSE IF StartsWith(line, TagUname) THEN IgnoredBranch(line, s, h, lg)
  ELSE IF StartsWith(line, TagUphase) THEN IgnoredBranch(line, s, h, lg)
  ELSE IF StartsWith(line, TagNote) THEN IgnoredBranch(line, s, h, lg)
  ELSE IF StartsWith(line, TagInote) THEN IgnoredBranch(line, s, h, lg)
  ELSE IF StartsWith(line, TagForm) THEN IgnoredBranch(line, s, h, lg)
  ELSE IF StartsWith(line, TagLit) THEN IgnoredBranch(line, s, h, lg)
  ELSE IF StartsWith(line, TagPname) THEN IgnoredBranch(line, s, h, lg)
  ELSE ElseBranch(line, s, h, lg)

\* line 60-93: the if/elif chain; the first test that succeeds decides.
Dispatch(line, s, h, lg) ==
  IF StartsWith(line, TagSign) THEN SignBranch(line, s, h, lg)
  ELSE IF StartsWith(line, TagEndSign) THEN EndSignBranch(line, s, h, lg)
  ELSE IF StartsWith(line, TagEnd) THEN EndBranch(line, s, h, lg)
  ELSE IF StartsWith(line, TagUcode) THEN UcodeBranch(line, s, h, lg)
  ELSE IF StartsWith(line, TagV) THEN VBranch(line, s, h, lg)
  ELSE IF StartsWith(line, TagList) THEN ListBranch(line, s, h, lg)
  ELSE IF StartsWith(line, TagFake) THEN FakeBranch(line, s, h, lg)
  ELSE IF StartsWith(line, TagUname) THEN IgnoredBranch(line, s, h, lg)
  ELSE IF StartsWith(line, TagUphase) THEN IgnoredBranch(line, s, h, lg)
  ELSE IF StartsWith(line, TagNote) THEN IgnoredBranch(line, s, h, lg)
  ELSE IF StartsWith(line, TagInote) THEN IgnoredBranch(line, s, h, lg)
  ELSE IF StartsWith(line, TagForm) THEN IgnoredBranch(line, s, h, lg)
  ELSE IF StartsWith(line, TagLit) THEN IgnoredBranch(line, s, h, lg)
  ELSE IF StartsWith(line, TagPname) THEN IgnoredBranch(line, s, h, lg)
  ELSE ElseBranch(line, s, h, lg)

\* line 56-93: the loop body on a raw line; a blank line is skipped.
LoopBody(raw, s, h, lg) ==
  LET line == Strip(raw) IN
    IF line = <<>> THEN Continue(s, h, lg) ELSE Dispatch(line, s, h, lg)

\* line 115-118, run to its end in one go: the records a consumer collects
\* from parse_asl over `lines` from line i on, with the reports made and the
\* exception that ended the run, if any.
RECURSIVE ParseFrom(_, _, _, _, _, _)
ParseFrom(lines, i, s, h, em, lg) ==
  IF i > Len(lines) THEN [emitted |-> em, heap |-> h, log |-> lg, exc |-> "none"]
  ELSE LET o == LoopBody(lines[i], s, h, lg) IN
    IF o.kind = "raise" THEN [emitted |-> em, heap |-> h, log |-> lg, exc |-> o.exc]
    ELSE IF o.kind = "yield" THEN ParseFrom(lines, i + 1, s, h, Append(em, s), lg)
    ELSE ParseFrom(lines, i + 1, o.sign, o.heap, em, o.log)

ParseAll(lines) == ParseFrom(lines, 1, 0, <<>>, <<>>, <<>>)

(***************************************************************************)
(* Input lines the model draws from.  readlines() keeps the line ends; a   *)
(* line is given here without its "\n", which strip() removes anyway.      *)
(***************************************************************************)
SP == Str(<<" ">>)

L_sign_A == TagSign \o SP \o Str(<<"A">>)
L_sign_B_C == TagSign \o SP \o Str(<<"B", " ", "C">>)
L_sign == TagSign
L_end_sign == TagEndSign
L_end_signs == TagEndSign \o Str(<<"s">>)
L_end_list == TagEnd \o SP \o Str(<<"l", "i", "s", "t">>)
L_v_v1_a == TagV \o SP \o Str(<<"v", "1", " ", "a">>)
L_v_v2 == SP \o TagV \o SP \o SP \o Str(<<"v", "2">>) \o SP
L_v == TagV
L_list_L1 == TagList \o SP \o SP \o Str(<<"L", "-", "1">>)
L_list == TagList
L_fake_0 == TagFake \o SP \o Str(<<"0">>)
L_fake == TagFake
L_ucode_AB == TagUcode \o SP \o Str(<<"x", "4", "1", ".", "x", "4", "2">>)
L_ucode == TagUcode
L_note == TagNote \o SP \o Str(<<"n">>)
L_uname == TagUname \o SP \o Str(<<"U">>)
L_uphase == TagUphase
L_inote == TagInote \o SP \o Str(<<"i">>)
L_form == TagForm \o SP \o Str(<<"f">>)
L_lit == TagLit
L_pname == TagPname \o SP \o Str(<<"p">>)
L_junk == Str(<<"z", "z">>)
L_blank == SP \o SP

\* Every input of at most MaxLines lines drawn from `lines`.
Inputs(lines) == UNION {[1..n -> lines] : n \in 0..MaxLines}

\* Records with two names, values, a citation, an ignored line, both kinds
\* of reported line and a longer-than-tag end line.
LinesMain ==
  { L_sign_A, L_sign_B_C, L_end_sign, L_end_signs, L_end_list, L_v_v1_a, L_v_v2,
    L_list_L1, L_note, L_junk }

\* The lines of well-formed records: two names, every field tag with its
\* argument, an ignored line and a blank line.
LinesBlocks ==
  { L_sign_A, L_sign_B_C, L_end_sign, L_ucode_AB, L_v_v1_a, L_v_v2, L_list_L1,
    L_fake_0, L_note, L_blank }

\* One line of each ignored tag, with and without text after the tag, around
\* a record with a value and a line that is reported.
LinesIgnored ==
  { L_sign_A, L_end_sign, L_v_v1_a, L_junk,
    L_uname, L_uphase, L_note, L_inote, L_form, L_lit, L_pname }

\* Tag lines with nothing after the tag, and a blank line.
LinesBare ==
  { L_sign_A, L_sign, L_end_sign, L_ucode, L_v, L_list, L_fake, L_v_v1_a, L_blank }

\* Codepoint tokens: decodable ones, one past the last code point, ones with
\* trailing or only non-hex characters, a lone x and the empty token.
K_1234 == Str(<<"1", "2", "3", "4">>)
K_x41 == Str(<<"x", "4", "1">>)
K_x42 == Str(<<"x", "4", "2">>)
K_110000 == Str(<<"1", "1", "0", "0", "0", "0">>)
K_12zz == Str(<<"1", "2", "z", "z">>)
K_zz == Str(<<"z", "z">>)
K_x == Str(<<"x">>)
K_empty == <<>>

Tokens == { K_1234, K_x41, K_x42, K_110000, K_12zz, K_zz, K_x, K_empty }

\* '.'.join(tokens)
RECURSIVE JoinDots(_)
JoinDots(tokens) ==
  IF Len(tokens) = 1 THEN tokens[1]
  ELSE tokens[1] \o Str(<<".">>) \o JoinDots(Tail(tokens))

\* One record whose only field line is an @ucode line of 1..MaxTokens tokens.
UcodeInputs ==
  { <<L_sign_A, TagUcode \o SP \o JoinDots(ts), L_end_sign>> :
      ts \in UNION {[1..n -> Tokens] : n \in 1..MaxTokens} }

(***************************************************************************)
(* The generator parse_asl(fp) and the loop of __main__ that consumes it.  *)
(*   input     the lines of fp (fp.readlines())                            *)
(*   cursor    how many of them the for loop has taken                     *)
(*   examined  the indices of the lines taken, in the order taken          *)
(*   sign      the generator's local `sign`: a heap index, 0 for None      *)
(*   heap      the OgslSign objects allocated so far                       *)
(*   emitted   the list `signs` of __main__: the references yielded        *)
(*   log       the reports made through logging                            *)
(*   pc        "created" (not started), "running" (the consumer waits in   *)
(*             next()), "suspended" (at the yield), "done" (the loop ran   *)
(*             out of lines: StopIteration), "raised" (an exception left   *)
(*             the generator), "reported" (__main__ has printed its report *)
(*             and ends), "crashed" (an exception left the report)         *)
(*   exc       the exception raised, "none" if none                        *)
(*   printed   the counts __main__ has printed, in the order printed       *)
(***************************************************************************)
InitWith(inputs) ==
  /\ input \in inputs
  /\ cursor = 0
  /\ examined = <<>>
  /\ sign = 0
  /\ heap = <<>>
  /\ emitted = <<>>
  /\ log = <<>>
  /\ pc = "created"
  /\ exc = "none"
  /\ printed = <<>>

Init == InitWith(Inputs(LinesMain))

\* line 117: the for loop of __main__ asks the generator for its next element.
Request ==
  /\ pc \in {"created", "suspended"}
  /\ pc' = "running"
  /\ UNCHANGED <<input, cursor, examined, sign, heap, emitted, log, exc, printed>>

\* The outcome of the loop body on the next line of the input.
NextOutcome == LoopBody(input[cursor + 1], sign, heap, log)

\* line 55: the for loop takes the next line.
TakeLine ==
  /\ pc = "running"
  /\ cursor < Len(input)
  /\ cursor' = cursor + 1
  /\ examined' = Append(examined, cursor + 1)
  /\ UNCHANGED <<input, printed>>

\* An iteration that ends with the loop going on to the next line.
Step ==
  /\ TakeLine
  /\ NextOutcome.kind = "next"
  /\ sign' = NextOutcome.sign
  /\ heap' = NextOutcome.heap
  /\ log' = NextOutcome.log
  /\ UNCHANGED <<emitted, pc, exc>>

\* line 64 and line 118: the generator yields `sign` and suspends; the
\* consumer appends the reference it got to `signs`.
Yield ==
  /\ TakeLine
  /\ NextOutcome.kind = "yield"
  /\ emitted' = Append(emitted, NextOutcome.sign)
  /\ pc' = "suspended"
  /\ UNCHANGED <<sign, heap, log, exc>>

\* An iteration that raises: the exception leaves the generator and the
\* for loop of __main__.
Throw ==
  /\ TakeLine
  /\ NextOutcome.kind = "raise"
  /\ pc' = "raised"
  /\ exc' = NextOutcome.exc
  /\ UNCHANGED <<sign, heap, emitted, log>>

\* line 55: readlines() has no more lines; the generator returns.
Exhaust ==
  /\ pc = "running"
  /\ cursor = Len(input)
  /\ pc' = "done"
  /\ UNCHANGED <<input, cursor, examined, sign, heap, emitted, log, exc, printed>>

\* The report of __main__ (lines 122-130).

\* A mutant of HasNoGlyph: the `not` is missing.
HasNoGlyph_Inverted(rec) == rec.sign # <<>>

\* `not sign.sign`
HasNoGlyph(rec) == rec.sign = <<>>

\* `not len(sign.values)`
HasNoValues(rec) == rec.values = <<>>

\* line 124: len([sign for sign in signs if not sign.sign])
OutOfUnicode(refs, h) == Cardinality({i \in 1..Len(refs) : HasNoGlyph(h[refs[i]])})

\* line 128: len([sign for sign in signs if not sign.values])
NoValues(refs, h) == Cardinality({i \in 1..Len(refs) : HasNoValues(h[refs[i]])})

\* A count of the report, as printed.
Count(what, n) == [what |-> what, n |-> n]

\* line 126 and 130: a count that is zero is not printed.
PrintIfAny(what, n) == IF n > 0 THEN <<Count(what, n)>> ELSE <<>>

\* line 122-130: what __main__ prints over `signs`.
ReportOf(refs, h) ==
  <<Count("total", Len(refs))>>
    \o PrintIfAny("out_of_unicode", OutOfUnicode(refs, h))
    \o PrintIfAny("no_values", NoValues(refs, h))

\* line 122-130: after the loop __main__ prints the total, then counts the
\* records with no glyph and those with no values.  An element of `signs`
\* that is None raises AttributeError at line 124, after the total is printed.
Summarize ==
  /\ pc = "done"
  /\ IF \E i \in 1..Len(emitted) : emitted[i] = 0
     THEN /\ printed' = <<Count("total", Len(emitted))>>
          /\ pc' = "crashed"
          /\ exc' = "AttributeError"
     ELSE /\ printed' = ReportOf(emitted, heap)
          /\ pc' = "reported"
          /\ exc' = exc
  /\ UNCHANGED <<input, cursor, examined, sign, heap, emitted, log>>

Next == Request \/ Step \/ Yield \/ Throw \/ Exhaust \/ Summarize

Spec == Init /\ [][Next]_vars

InitBlocks == InitWith(Inputs(LinesBlocks))

SpecBlocks == InitBlocks /\ [][Next]_vars

InitIgnored == InitWith(Inputs(LinesIgnored))

SpecIgnored == InitIgnored /\ [][Next]_vars

InitBare == InitWith(Inputs(LinesBare))

SpecBare == InitBare /\ [][Next]_vars

InitUcode == InitWith(UcodeInputs)

SpecUcode == InitUcode /\ [][Next]_vars

(***************************************************************************)
(* Vocabulary of the claims: what the input format calls a line.           *)
(***************************************************************************)
\* The line the for loop took last, stripped.
LastLine == Strip(input[cursor])

\* A line the parser has just taken, as a step of the loop sees it.
TakesLine == pc = "running" /\ cursor < Len(input) /\ cursor' = cursor + 1

\* A terminator other than the record-end tag: an @end line not equal to it.
IsMalformedEnd(line) == StartsWith(line, TagEnd) /\ line # TagEndSign

\* A line that begins with the record-end tag and is longer than it.
IsLongerEnd(line) == StartsWith(line, TagEndSign) /\ line # TagEndSign

\* The generator has returned or an exception has left it.
Finished == pc \in {"done", "raised"}

(***************************************************************************)
(* C2 (refuted by the code): for any input parse_asl never reaches an      *)
(* exception state; every problematic line is reported and skipped.        *)
(* rest_of raises ValueError on a tag line with nothing after the tag,     *)
(* items[1] raises IndexError on a bare @v, and a field line before any    *)
(* @sign raises AttributeError on None.                                    *)
(***************************************************************************)
C2_NeverRaises == pc # "raised"

(***************************************************************************)
(* C3 (refuted by the code): a line that begins with `@end sign` but is    *)
(* longer than it does not emit the current record; it is reported at      *)
(* error severity and skipped.  The code tests startswith('@end sign'), so *)
(* `@end signs` yields.                                                    *)
(***************************************************************************)
C3_EndTagExact ==
  (cursor >= 1 /\ sign # 0 /\ IsLongerEnd(LastLine)) =>
    /\ pc # "suspended"
    /\ log # <<>>
    /\ log[Len(log)] = [level |-> "ERROR", line |-> LastLine]

\* The tags of the input format.
KnownTags ==
  { TagSign, TagEndSign, TagEnd, TagUcode, TagV, TagList, TagFake, TagUname,
    TagUphase, TagNote, TagInote, TagForm, TagLit, TagPname }

\* A non-blank line that begins with no known tag.
IsUnrecognized(line) == line # <<>> /\ \A t \in KnownTags : ~StartsWith(line, t)

\* The line is reported once at `level` and otherwise changes nothing: no
\* record is emitted, the current record stays current and no field changes.
ReportedAndSkipped(level, line) ==
  /\ log' = Append(log, [level |-> level, line |-> line])
  /\ emitted' = emitted
  /\ sign' = sign
  /\ heap' = heap
  /\ pc' = "running"

(***************************************************************************)
(* C4 (refuted by the code, through C3): a malformed terminator line makes *)
(* exactly one error report and an unrecognized line exactly one warning   *)
(* report; either emits nothing, does not end the current record and       *)
(* leaves its fields unchanged.  Stated for a parser that has a current    *)
(* record.  It holds of `@end list` and of `zz`, and fails for the         *)
(* malformed terminator `@end signs`, which the code takes as record end.  *)
(***************************************************************************)
C4_ReportedAndSkipped ==
  [][(TakesLine /\ sign # 0) =>
       LET line == Strip(input[cursor + 1]) IN
         /\ IsMalformedEnd(line) => ReportedAndSkipped("ERROR", line)
         /\ IsUnrecognized(line) => ReportedAndSkipped("WARNING", line)]_vars

(***************************************************************************)
(* C10 (refuted by the code, through C2): whatever the input, once the     *)
(* sequence is exhausted every input line has been examined exactly once,  *)
(* in input order.  An exception ends the generator at the line that       *)
(* raised it, with the lines after it never examined.                      *)
(***************************************************************************)
C10_CompletesOverAllLines ==
  Finished => examined = [i \in 1..Len(input) |-> i]

(***************************************************************************)
(* Codepoint tokens as the format defines them.                            *)
(***************************************************************************)
\* The token without its optional leading x.
HexPart(token) ==
  IF token # <<>> /\ Head(token) = Ord("x") THEN Tail(token) ELSE token

\* The whole token is a hexadecimal string with an optional leading x.
IsWholeHex(token) ==
  HexPart(token) # <<>> /\ \A i \in 1..Len(HexPart(token)) : IsHexDigit(HexPart(token)[i])

\* ... and it names a code point.
IsScalarToken(token) == IsWholeHex(token) /\ HexToInt(HexPart(token)) <= 1114111

\* The dot-separated tokens of an `@ucode <tokens>` line.
UcodeTokens(line) == SplitOn(SubSeq(line, Len(TagUcode) + 2, Len(line)), Ord("."))

\* In SpecUcode line 2 is the @ucode line of record 1; it has been processed
\* once the cursor is past it.
UcodeLineDone == cursor >= 2

(***************************************************************************)
(* C7: an `@ucode t1.t2...tn` line whose tokens are all hexadecimal        *)
(* strings with an optional leading x sets the glyph of the current record *)
(* to the characters at those scalar values, in token order, with no       *)
(* separator: `@ucode 1234` gives the character 0x1234 and `@ucode         *)
(* x41.x42` gives "AB".                                                    *)
(***************************************************************************)
C7_GlyphIsConcatenation ==
  UcodeLineDone =>
    LET ts == UcodeTokens(input[2]) IN
      /\ (\A i \in 1..Len(ts) : IsScalarToken(ts[i])) =>
           /\ pc # "raised"
           /\ heap[1].sign = [i \in 1..Len(ts) |-> HexToInt(HexPart(ts[i]))]
      /\ ts = <<K_1234>> => heap[1].sign = <<4660>>
      /\ ts = <<K_x41, K_x42>> => heap[1].sign = Str(<<"A", "B">>)

C7_Witness ==
  /\ pc = "suspended"
  /\ UcodeTokens(input[2]) = <<K_x41, K_x42>>
  /\ emitted = <<1>>
  /\ heap[1].sign = <<65, 66>>

(***************************************************************************)
(* C8 (refuted by the code): the decoder returns its token unchanged for   *)
(* every token that is not, in its entirety, a hexadecimal string with an  *)
(* optional leading x.  Seen through a one-token @ucode line, whose glyph  *)
(* is the decoding of that token.  re.match anchors the pattern at the     *)
(* start only, so `12zz` decodes to the character 0x12.                    *)
(***************************************************************************)
C8_NonHexTokenUnchanged ==
  (UcodeLineDone /\ pc # "raised") =>
    LET ts == UcodeTokens(input[2]) IN
      (Len(ts) = 1 /\ ~IsWholeHex(ts[1])) => heap[1].sign = ts[1]

(***************************************************************************)
(* The input format (section 6 of the specification), told apart by the    *)
(* first word of a line and not by the parser's prefix tests.              *)
(***************************************************************************)
\* The first whitespace-separated word of a line.
FirstWord(line) == LET t == LStrip(line) IN SubSeq(t, 1, WordLen(t))

\* What follows the first word, stripped.
Remainder(line) ==
  LET t == LStrip(line) IN Strip(SubSeq(t, WordLen(t) + 1, Len(t)))

\* The second whitespace-separated word of a line.
SecondWord(line) == FirstWord(Remainder(line))

IsBlankLine(line) == Strip(line) = <<>>

\* `@sign <name>`
IsSignLine(line) == FirstWord(line) = TagSign /\ Remainder(line) # <<>>

\* `@end sign`
IsEndSignLine(line) == Strip(line) = TagEndSign

\* `@v <id> [reading]`
IsVLine(line) == FirstWord(line) = TagV /\ Remainder(line) # <<>>

\* `@list <citation>`
IsListLine(line) == FirstWord(line) = TagList /\ Remainder(line) # <<>>

\* `@fake <flag>`
IsFakeLine(line) == FirstWord(line) = TagFake /\ Remainder(line) # <<>>

\* `@ucode <code>[.<code>...]`
IsUcodeLine(line) ==
  /\ FirstWord(line) = TagUcode
  /\ Remainder(line) # <<>>
  /\ LET ts == SplitOn(Remainder(line), Ord(".")) IN
       \A i \in 1..Len(ts) : IsScalarToken(ts[i])

IgnoredTags == { TagUname, TagUphase, TagNote, TagInote, TagForm, TagLit, TagPname }

\* A line of one of the recognized-but-ignored tags.
IsIgnoredLine(line) == \E t \in IgnoredTags : StartsWith(Strip(line), t)

\* A line that may stand between `@sign` and `@end sign`.
IsFieldLine(line) ==
  \/ IsUcodeLine(line) \/ IsVLine(line) \/ IsListLine(line) \/ IsFakeLine(line)
  \/ IsIgnoredLine(line)

\* lines[i..] is a sequence of `@sign <name>` ... `@end sign` blocks, entered
\* inside a block if open.
RECURSIVE WellFormedFrom(_, _, _)
WellFormedFrom(lines, i, open) ==
  IF i > Len(lines) THEN ~open
  ELSE IF IsBlankLine(lines[i]) THEN WellFormedFrom(lines, i + 1, open)
  ELSE IF IsSignLine(lines[i]) THEN ~open /\ WellFormedFrom(lines, i + 1, TRUE)
  ELSE IF IsEndSignLine(lines[i]) THEN open /\ WellFormedFrom(lines, i + 1, FALSE)
  ELSE open /\ IsFieldLine(lines[i]) /\ WellFormedFrom(lines, i + 1, open)

WellFormed(lines) == WellFormedFrom(lines, 1, FALSE)

\* The field a line of the format sets, applied to the record rec.
WithField(rec, line) ==
  IF IsUcodeLine(line) THEN
    LET ts == SplitOn(Remainder(line), Ord(".")) IN
      [rec EXCEPT !.sign = [i \in 1..Len(ts) |-> HexToInt(HexPart(ts[i]))]]
  ELSE IF IsVLine(line) THEN [rec EXCEPT !.values = Append(@, SecondWord(line))]
  ELSE IF IsListLine(line) THEN [rec EXCEPT !.lists = Append(@, Remainder(line))]
  ELSE IF IsFakeLine(line) THEN [rec EXCEPT !.fake = TRUE]
  ELSE rec

\* The records of the blocks of a well-formed input, block by block: cur is
\* the record of the block being read, out the records of the blocks read.
RECURSIVE BlockRecords(_, _, _, _)
BlockRecords(lines, i, cur, out) ==
  IF i > Len(lines) THEN out
  ELSE IF IsSignLine(lines[i]) THEN
    BlockRecords(lines, i + 1,
      [name |-> Remainder(lines[i]), lists |-> <<>>, sign |-> <<>>,
       values |-> <<>>, fake |-> FALSE], out)
  ELSE IF IsEndSignLine(lines[i]) THEN
    BlockRecords(lines, i + 1, cur, Append(out, cur))
  ELSE BlockRecords(lines, i + 1, WithField(cur, lines[i]), out)

\* How many of lines[1..n] are `@end sign` lines.
RECURSIVE EndSignCount(_, _)
EndSignCount(lines, n) ==
  IF n = 0 THEN 0
  ELSE EndSignCount(lines, n - 1) + (IF IsEndSignLine(lines[n]) THEN 1 ELSE 0)

\* The records handed to the consumer, as it sees them now (None for 0).
EmittedRecords ==
  [i \in 1..Len(emitted) |->
     IF emitted[i] = 0 THEN [none |-> TRUE] ELSE heap[emitted[i]]]

(***************************************************************************)
(* C1: on a well-formed input parse_asl raises nothing and, once it is     *)
(* exhausted, has emitted exactly one Sign per `@sign`/`@end sign` block,  *)
(* in input order: the i-th emitted Sign carries the name and fields of    *)
(* the i-th block, and there are as many as there are `@end sign` lines.   *)
(* While it runs, the records emitted so far are those of the blocks read  *)
(* so far.                                                                 *)
(***************************************************************************)
C1_OneSignPerBlock ==
  WellFormed(input) =>
    /\ pc # "raised"
    /\ Len(emitted) = EndSignCount(input, cursor)
    /\ pc \in {"suspended", "done"} =>
         EmittedRecords = BlockRecords(SubSeq(input, 1, cursor), 1, OgslSign(<<>>), <<>>)
    /\ pc = "done" => cursor = Len(input)

C1_Witness ==
  /\ pc = "done"
  /\ WellFormed(input)
  /\ Len(emitted) = 2
  /\ emitted[1] # emitted[2]
  /\ heap[emitted[1]].name = Str(<<"A">>)
  /\ heap[emitted[2]].name = Str(<<"B", " ", "C">>)

\* The last reference handed to the consumer.
LastEmitted == emitted[Len(emitted)]

\* The line that opened the record current at the cursor: the last `@sign`
\* line taken.
RecordStart == CHOOSE j \in 1..cursor :
  IsSignLine(input[j]) /\ \A k \in (j + 1)..cursor : ~IsSignLine(input[k])

\* The lines of the record from its `@sign` line to the line just taken.
RecordLines == SubSeq(input, RecordStart + 1, cursor - 1)

SecondWords(lines) == [i \in 1..Len(lines) |-> SecondWord(lines[i])]

Remainders(lines) == [i \in 1..Len(lines) |-> Remainder(lines[i])]

(***************************************************************************)
(* C6: when a record is emitted, its values are exactly the second words   *)
(* of its `@v` lines and its citations exactly the stripped remainders of  *)
(* its `@list` lines, each in input order, one element per line.           *)
(***************************************************************************)
C6_InsertionOrder ==
  (pc = "suspended" /\ LastEmitted # 0) =>
    /\ heap[LastEmitted].values = SecondWords(SelectSeq(RecordLines, IsVLine))
    /\ heap[LastEmitted].lists = Remainders(SelectSeq(RecordLines, IsListLine))

C6_Witness ==
  /\ pc = "suspended"
  /\ LastEmitted # 0
  /\ SubSeq(input, 1, cursor) = <<L_sign_A, L_v_v2, L_v_v1_a, L_end_sign>>
  /\ heap[LastEmitted].values = <<Str(<<"v", "2">>), Str(<<"v", "1">>)>>

(***************************************************************************)
(* C5: lines of the ignored tags are no-ops.  When parsing has ended, the  *)
(* records emitted, the reports made and the way it ended are those of     *)
(* parsing the input with every `@uname`, `@uphase`, `@note`, `@inote`,    *)
(* `@form`, `@lit` and `@pname` line removed.                              *)
(***************************************************************************)
NotIgnoredLine(line) == ~IsIgnoredLine(line)

WithoutIgnored(lines) == SelectSeq(lines, NotIgnoredLine)

C5_IgnoredTagsAreNoOps ==
  Finished =>
    LET r == ParseAll(WithoutIgnored(input)) IN
      /\ EmittedRecords =
           [i \in 1..Len(r.emitted) |->
              IF r.emitted[i] = 0 THEN [none |-> TRUE] ELSE r.heap[r.emitted[i]]]
      /\ log = r.log
      /\ exc = r.exc

C5_Witness ==
  /\ pc = "done"
  /\ Len(input) = 4
  /\ IsSignLine(input[1])
  /\ \E i \in 2..3 : IsIgnoredLine(input[i]) /\ IsVLine(input[5 - i])
  /\ IsEndSignLine(input[4])
  /\ emitted = <<1>>
  /\ heap[1].values = <<Str(<<"v", "1">>)>>
  /\ log = <<>>

(***************************************************************************)
(* C9: parsing is lazy and pull-based.  A request runs the loop up to and  *)
(* including the next record-end line, where the generator suspends and    *)
(* hands out the current record; when the k-th record has been handed out  *)
(* the lines taken are exactly those up to the line that emitted it, none  *)
(* of which comes after the k-th `@end sign` line; and nothing changes     *)
(* while no element is requested.                                          *)
(***************************************************************************)
LazyAtYield ==
  pc = "suspended" =>
    /\ cursor >= 1
    /\ StartsWith(LastLine, TagEndSign)
    /\ examined = [i \in 1..cursor |-> i]
    /\ EndSignCount(input, cursor - 1) < Len(emitted)

SuspendsAtRecordEnd ==
  (TakesLine /\ IsEndSignLine(input[cursor + 1])) =>
    /\ pc' = "suspended"
    /\ emitted' = Append(emitted, sign)
    /\ UNCHANGED <<sign, heap, log>>

NothingUntilRequested ==
  pc \in {"created", "suspended"} =>
    /\ pc' = "running"
    /\ UNCHANGED <<cursor, examined, sign, heap, emitted, log>>

C9_LazyPull ==
  /\ []LazyAtYield
  /\ [][SuspendsAtRecordEnd /\ NothingUntilRequested]_vars

C9_Witness ==
  /\ pc = "suspended"
  /\ emitted = <<1>>
  /\ cursor = 2
  /\ Len(input) > cursor
  /\ IsMalformedEnd(Strip(input[cursor + 1])) \/ IsUnrecognized(Strip(input[cursor + 1]))
  /\ log = <<>>

(***************************************************************************)
(* C11: when a record is emitted its isFake flag is false if no `@fake`    *)
(* line occurred in it and true if a `@fake` line with a non-empty         *)
(* remainder did, whatever the remainder's text (here `0`).                *)
(***************************************************************************)
C11_FakeFlag ==
  (pc = "suspended" /\ LastEmitted # 0) =>
    heap[LastEmitted].fake = (\E i \in 1..Len(RecordLines) : IsFakeLine(RecordLines[i]))

C11_Witness ==
  /\ pc = "suspended"
  /\ LastEmitted # 0
  /\ \E i \in 1..Len(RecordLines) : RecordLines[i] = L_fake_0
  /\ heap[LastEmitted].fake = TRUE

(***************************************************************************)
(* C12: a record with no `@ucode` line is emitted with an empty glyph, and *)
(* the counts __main__ prints are exact: the total is the number of        *)
(* emitted records, the "out of Unicode" count the number of them whose    *)
(* glyph is empty and the "no phonetic values" count the number of them    *)
(* whose values are empty (a count that is not printed being zero).        *)
(***************************************************************************)
\* The count printed under `what`, zero if none was printed.
Printed(what) ==
  IF \E i \in 1..Len(printed) : printed[i].what = what
  THEN (CHOOSE c \in {printed[i] : i \in 1..Len(printed)} : c.what = what).n
  ELSE 0

\* Each count is printed at most once.
PrintedOnce ==
  \A i, j \in 1..Len(printed) : printed[i].what = printed[j].what => i = j

HasUcodeLine(lines) == \E i \in 1..Len(lines) : FirstWord(lines[i]) = TagUcode

C12_ReportCounts ==
  /\ (pc = "suspended" /\ LastEmitted # 0 /\ ~HasUcodeLine(RecordLines)) =>
       heap[LastEmitted].sign = <<>>
  /\ PrintedOnce
  /\ printed # <<>> => Printed("total") = Len(emitted)
  /\ pc = "reported" =>
       /\ Printed("out_of_unicode") =
            Cardinality({i \in 1..Len(emitted) : heap[emitted[i]].sign = <<>>})
       /\ Printed("no_values") =
            Cardinality({i \in 1..Len(emitted) : heap[emitted[i]].values = <<>>})

C12_Witness ==
  /\ pc = "reported"
  /\ emitted = <<1>>
  /\ ~HasUcodeLine(input)
  /\ heap[1].values # <<>>
  /\ printed = <<Count("total", 1), Count("out_of_unicode", 1)>>

(***************************************************************************)
(* C13: the name of an emitted record is the whole remainder of its        *)
(* `@sign` line after the tag, stripped, also when that remainder has      *)
(* several words.                                                          *)
(***************************************************************************)
\* What follows the tag on a line that begins with it, stripped.
AfterTag(line, tag) ==
  LET t == Strip(line) IN Strip(SubSeq(t, Len(tag) + 1, Len(t)))

C13_NameIsRemainder ==
  (pc = "suspended" /\ LastEmitted # 0) =>
    heap[LastEmitted].name = AfterTag(input[RecordStart], TagSign)

C13_Witness ==
  /\ pc = "suspended"
  /\ LastEmitted # 0
  /\ input[RecordStart] = L_sign_B_C
  /\ heap[LastEmitted].name = Str(<<"B", " ", "C">>)

\* Every element of seq is a reference to a Sign, none is None.
NoneFree(seq) == \A i \in 1..Len(seq) : seq[i] # 0

(***************************************************************************)
(* C14 (refuted by the code): once a Sign has been emitted, no line        *)
(* processed afterwards changes any of its fields.  The generator keeps    *)
(* its reference after the yield, so a field line that comes before the    *)
(* next `@sign` changes the record the consumer already holds.             *)
(***************************************************************************)
C14_EmittedIsFrozen ==
  [][\A i \in 1..Len(emitted) :
       emitted[i] # 0 => heap'[emitted[i]] = heap[emitted[i]]]_vars

(***************************************************************************)
(* C15 (refuted by the code): a record-end line with no record-start       *)
(* before it emits nothing; every value emitted is a Sign created by an    *)
(* earlier `@sign` line, never None.  The code yields its local `sign`,    *)
(* which is still None.                                                    *)
(***************************************************************************)
C15_NeverEmitsNone == NoneFree(emitted)

(***************************************************************************)
(* C16 (refuted by the code): no Sign is emitted more than once; two       *)
(* `@end sign` lines with no `@sign` line between them do not emit the     *)
(* same record twice.  The second one yields the same object again.        *)
(***************************************************************************)
C16_NoDoubleEmission ==
  \A i, j \in 1..Len(emitted) : (i < j /\ emitted[i] # 0) => emitted[i] # emitted[j]

(***************************************************************************)
(* C17 (refuted by the code, through C3): a record is emitted only by its  *)
(* own `@end sign` line; a new `@sign` line and the end of the input emit  *)
(* nothing, and the record a `@sign` line creates is new, with empty       *)
(* glyph, values and citations and isFake false.  It fails for the record  *)
(* that the line `@end signs` emits.                                       *)
(***************************************************************************)
C17_EmittedOnlyByOwnEnd ==
  [][/\ (emitted' # emitted /\ sign # 0) =>
          /\ TakesLine
          /\ IsEndSignLine(input[cursor + 1])
          /\ emitted' = Append(emitted, sign)
     /\ (TakesLine /\ IsSignLine(input[cursor + 1])) =>
          /\ emitted' = emitted
          /\ sign' = Len(heap) + 1
          /\ heap' = Append(heap,
               [name |-> Remainder(input[cursor + 1]), lists |-> <<>>,
                sign |-> <<>>, values |-> <<>>, fake |-> FALSE])
     /\ pc' = "done" => emitted' = emitted]_vars

(***************************************************************************)
(* C18: tag dispatch is first-match in a fixed order.  A line equal to     *)
(* `@end sign` is always taken as record end: it emits, starts no record   *)
(* and is not reported.  Every non-blank line is handled by exactly one    *)
(* rule, the first in the order whose tag is a prefix of the line (rule 0  *)
(* when none is), and has the effect of that rule only.                    *)
(***************************************************************************)
TagOrder ==
  << TagSign, TagEndSign, TagEnd, TagUcode, TagV, TagList, TagFake, TagUname,
     TagUphase, TagNote, TagInote, TagForm, TagLit, TagPname >>

Matching(line) == {i \in 1..Len(TagOrder) : StartsWith(line, TagOrder[i])}

RuleOf(line) ==
  IF Matching(line) = {} THEN 0
  ELSE CHOOSE i \in Matching(line) : \A j \in Matching(line) : i <= j

Starts == sign' = Len(heap) + 1 /\ Len(heap') = Len(heap) + 1
NoStart == sign' = sign /\ Len(heap') = Len(heap)
Emits == emitted' = Append(emitted, sign) /\ pc' = "suspended"
NoEmit == emitted' = emitted /\ pc' # "suspended"
Reports(level, line) == log' = Append(log, [level |-> level, line |-> line])
NoReport == log' = log
Raises == pc' = "raised"

HandledBy(rule, line) ==
  CASE rule = 1 -> NoEmit /\ NoReport /\ ((Starts /\ ~Raises) \/ (NoStart /\ Raises))
    [] rule = 2 -> Emits /\ NoReport /\ NoStart /\ heap' = heap
    [] rule = 3 -> Reports("ERROR", line) /\ NoEmit /\ NoStart /\ heap' = heap /\ ~Raises
    [] rule \in 4..7 -> NoEmit /\ NoReport /\ NoStart
    [] rule \in 8..14 -> NoEmit /\ NoReport /\ NoStart /\ heap' = heap /\ ~Raises
    [] rule = 0 -> Reports("WARNING", line) /\ NoEmit /\ NoStart /\ heap' = heap /\ ~Raises

C18_FirstMatchDispatch ==
  [][TakesLine =>
       LET line == Strip(input[cursor + 1]) IN
         /\ line = TagEndSign => HandledBy(2, line)
         /\ line # <<>> => HandledBy(RuleOf(line), line)]_vars

C18_Witness ==
  /\ pc = "suspended"
  /\ LastLine = TagEndSign
  /\ Cardinality(Matching(LastLine)) = 2
  /\ emitted = <<1>>
  /\ log = <<>>
  /\ Len(heap) = 1

====
